---- MODULE Spec2Model ----
(***************************************************************************)
(* Model of the Airthings MQTT bridge sketch (AirthingsMQTTBridge.ino):    *)
(* one wake cycle of setup() is scan -> getAndRecordReadings -> deep       *)
(* sleep.  The controller's position is pc; the BLE stack's scan callback  *)
(* (FoundDeviceCallback::onResult) runs in its own task at position cbpc.  *)
(* Serial diagnostics are output only and are not part of the state.       *)
(***************************************************************************)
EXTENDS Integers, Sequences, FiniteSets, TLC

\* ------------------------------------------------------------------------
\* Program constants (#define lines of the sketch)
\* ------------------------------------------------------------------------
READ_WAIT_SECONDS == 60 * 60
READ_WAIT_RETRY_SECONDS == 30
CONNECT_WAIT_SECONDS == 30
uS_TO_S_FACTOR == 1000000
SECONDS_TO_MILLIS == 1000
BECQUERELS_M2_TO_PICOCURIES_L == 37
\* pBLEScan->start(30): the scan window in seconds
SCAN_SECONDS == 30
\* delay(500) inside the WiFi wait loop, in milliseconds
WIFI_POLL_MILLIS == 500

\* AirthingsProduct enum
WAVE == "WAVE"
WAVEPLUS == "WAVEPLUS"

\* The service UUIDs a device can advertise or expose
waveServiceUUID == "b42e1f6e"
wavePlusServiceUUID == "b42e1c08"
otherServiceUUID == "other"

\* Characteristic UUIDs
temperatureUUID == "2A6E"
humidityUUID == "2A6F"
radon24UUID == "b42e01aa"
radonLongTermUUID == "b42e0a4c"
characteristicUUID == "b42e2a68"
WaveChars == {temperatureUUID, humidityUUID, radon24UUID, radonLongTermUUID}
AllChars == WaveChars \cup {characteristicUUID}
\* the characteristic sets a service of a device may expose: all of them, all
\* but one, the Wave Plus one alone, or none
CharSets == {AllChars \ m : m \in {{}, WaveChars, AllChars} \cup {{c} : c \in AllChars}}

\* MQTT topics
TOPIC_RADON_24HR == "airthings/radon24hour"
TOPIC_RADON_LIFETIME == "airthings/radonLifetime"
TOPIC_TEMPERATURE == "airthings/temperature"
TOPIC_HUMIDITY == "airthings/humidity"
TOPIC_PRESSURE == "airthings/pressure"
TOPIC_CO2 == "airthings/co2"
TOPIC_VOC == "airthings/voc"
TOPIC_VERSION == "airthings/version"
TOPIC_AMBIENTLIGHT == "airthings/ambientlight"

\* ------------------------------------------------------------------------
\* Bounds of the model
\* ------------------------------------------------------------------------
\* number of distinct BLE addresses that advertise
MaxAddr == 2
Addrs == 1..MaxAddr
\* a null BLERemoteService* / BLERemoteCharacteristic*
nullptr == "nullptr"
\* BLEAddress* address of a value-initialised FoundDeviceCallback: no address
NoAddress == 0
\* uint8_t* pRawdata == nullptr: no bytes
NoData == <<>>

\* raw 16-bit register values the four Wave characteristics may return
SampleRegs ==
  { [temperature |-> 2150, humidity |-> 4550, radon |-> 185, radonLongterm |-> 74],
    [temperature |-> 65436, humidity |-> 10000, radon |-> 0, radonLongterm |-> 65535] }
\* raw records a Wave Plus characteristic may return (bytes 0..15)
SampleBuffers ==
  { <<1, 90, 7, 0, 185, 0, 74, 0, 102, 8, 64, 31, 144, 1, 50, 0>>,
    <<2, 61, 0, 0, 37, 0, 0, 1, 156, 255, 0, 0, 0, 0, 0, 0>> }

\* ------------------------------------------------------------------------
\* Register decoder: Arduino String(value, decimalPlaces)
\* ------------------------------------------------------------------------
DigitStr(d) ==
  CASE d = 0 -> "0" [] d = 1 -> "1" [] d = 2 -> "2" [] d = 3 -> "3"
    [] d = 4 -> "4" [] d = 5 -> "5" [] d = 6 -> "6" [] d = 7 -> "7"
    [] d = 8 -> "8" [] d = 9 -> "9"

RECURSIVE NatStr(_)
\* String(unsigned integer): plain decimal digits
NatStr(n) == IF n < 10 THEN DigitStr(n)
             ELSE NatStr(n \div 10) \o DigitStr(n % 10)

RECURSIVE Pow10(_)
Pow10(k) == IF k = 0 THEN 1 ELSE 10 * Pow10(k - 1)

RECURSIVE FracStr(_, _)
\* the k digits after the decimal point, zero padded
FracStr(f, k) == IF k = 0 THEN ""
                 ELSE FracStr(f \div 10, k - 1) \o DigitStr(f % 10)

\* String(double, places) of the value scaled / 10^places
FixedStr(scaled, places) ==
  LET a == IF scaled < 0 THEN 0 - scaled ELSE scaled
      s == IF scaled < 0 THEN "-" ELSE ""
  IN  s \o NatStr(a \div Pow10(places)) \o "." \o FracStr(a % Pow10(places), places)

\* n / d rounded to the nearest integer (n >= 0, d > 0), as dtostrf rounds
RoundDiv(n, d) == (2 * n + d) \div (2 * d)

\* the register taken as it is read, without the (short) cast
ShortUnsigned(raw) == raw

\* (short) cast of a uint16_t
Short(raw) == IF raw >= 32768 THEN raw - 65536 ELSE raw

\* String(((short)readUInt16()) / 100.0, 2)
WaveTemperature(raw) == FixedStr(Short(raw), 2)
\* String(readUInt16() / 100.0, 2)
WaveHumidity(raw) == FixedStr(raw, 2)
\* the radon quotient printed with one decimal place
WaveRadonOneDecimal(raw) ==
  FixedStr(RoundDiv(raw * 10, BECQUERELS_M2_TO_PICOCURIES_L), 1)

\* String(readUInt16() / BECQUERELS_M2_TO_PICOCURIES_L): two decimals by default
WaveRadon(raw) == FixedStr(RoundDiv(raw * 100, BECQUERELS_M2_TO_PICOCURIES_L), 2)

\* WavePlusRawReadings overlaid on the raw bytes (little endian, offsets from 0)
U8(buf, off) == buf[off + 1]
\* a uint16_t member read high byte first
U16BigEndian(buf, off) == 256 * buf[off + 1] + buf[off + 2]
U16(buf, off) == buf[off + 1] + 256 * buf[off + 2]
WavePlusRawReadings(buf) ==
  [ version |-> U8(buf, 0), humidity |-> U8(buf, 1), ambientLight |-> U8(buf, 2),
    radon |-> U16(buf, 4), radonLongterm |-> U16(buf, 6),
    temperature |-> U16(buf, 8), pressure |-> U16(buf, 10),
    co2 |-> U16(buf, 12), voc |-> U16(buf, 14) ]

\* String(rawReadings->humidity / 2.0f, 2)
PlusHumidity(b) == FixedStr(b * 50, 2)
\* the Wave Plus temperature with the (short) cast of readWaveSensors
PlusTemperatureSigned(raw) == FixedStr(Short(raw), 2)
\* String(rawReadings->temperature / 100.0f, 2)
PlusTemperature(raw) == FixedStr(raw, 2)
\* the pressure printed with two decimal places
PlusPressureTwoDecimals(raw) == FixedStr(raw * 2, 2)
\* String(rawReadings->pressure / 50.0f, 1)
PlusPressure(raw) == FixedStr(RoundDiv(raw * 10, 50), 1)

\* WaveReadings: nine Strings, default constructed empty
Fields == {"version", "humidity", "ambientLight", "radon", "radonLongterm",
           "temperature", "pressure", "co2", "voc"}
WaveFields == {"temperature", "humidity", "radon", "radonLongterm"}
EmptyReadings == [f \in Fields |-> ""]

\* the four assignments of readWaveSensors
WaveDecode(r, regs) ==
  [r EXCEPT !.temperature = WaveTemperature(regs.temperature),
            !.humidity = WaveHumidity(regs.humidity),
            !.radon = WaveRadon(regs.radon),
            !.radonLongterm = WaveRadon(regs.radonLongterm)]

\* the nine assignments of readWavePlusSensors
PlusDecode(buf) ==
  LET raw == WavePlusRawReadings(buf)
  IN [ version |-> NatStr(raw.version),
       humidity |-> PlusHumidity(raw.humidity),
       ambientLight |-> NatStr(raw.ambientLight),
       radon |-> NatStr(raw.radon),
       radonLongterm |-> NatStr(raw.radonLongterm),
       temperature |-> PlusTemperature(raw.temperature),
       pressure |-> PlusPressure(raw.pressure),
       co2 |-> NatStr(raw.co2),
       voc |-> NatStr(raw.voc) ]

\* ------------------------------------------------------------------------
\* State
\* ------------------------------------------------------------------------
VARIABLES
  pc,               \* position of setup() / getAndRecordReadings()
  cbpc,             \* position of FoundDeviceCallback::onResult in the BLE task
  cbDevice,         \* the advertised device onResult is handling
  scanRunning,      \* the scan started by pBLEScan->start(30) has not ended
  scanClock,        \* seconds of the scan window used up
  found,            \* FoundDeviceCallback::found
  address,          \* FoundDeviceCallback::address
  pAddress,         \* argument of getAndRecordReadings
  connected,        \* the BLEClient link is open
  services,         \* service UUIDs the connected device exposes
  queried,          \* service UUIDs asked of the device, in order
  airthingsProduct, \* the variant tag
  pRemoteService,   \* the service getService returned, or nullptr
  serviceChars,     \* characteristics that service exposes
  ran,              \* read procedures entered in this cycle, in order
  retval,           \* retval of readSensors
  regs,             \* the four registers readWaveSensors read
  rawdata,          \* the buffer readWavePlusSensors read
  readings,         \* WaveReadings readings
  writer,           \* which read procedure last assigned each field
  wifi,             \* WiFi.status() == WL_CONNECTED
  elapsed,          \* millis() - start in the WiFi wait loop
  mqttConnected,    \* mqtt.connect succeeded
  attempted,        \* topics passed to mqtt.publish, in order
  published,        \* <<topic, payload>> of the publishes that succeeded
  recorded,         \* what getAndRecordReadings returned
  timeToSleep,      \* unsigned long timeToSleep
  wakeTimer,        \* argument of esp_sleep_enable_timer_wakeup
  prevSleep         \* timeToSleep of the previous cycle (0: none, or it crashed)

vars == <<pc, cbpc, cbDevice, scanRunning, scanClock, found, address, pAddress,
          connected, services, queried, airthingsProduct, pRemoteService, serviceChars,
          ran, retval, regs, rawdata, readings, writer, wifi, elapsed,
          mqttConnected, attempted, published, recorded, timeToSleep, wakeTimer,
          prevSleep>>

scanVars == <<cbpc, cbDevice, scanRunning, scanClock, found, address>>
bleVars == <<connected, services, queried, airthingsProduct, pRemoteService, serviceChars>>
readVars == <<ran, retval, regs, rawdata, readings, writer>>
mqttVars == <<mqttConnected, attempted, published>>

NoDevice == [haveServiceUUID |-> FALSE, serviceUUID |-> otherServiceUUID,
             address |-> NoAddress]
NoRegs == [u \in WaveFields |-> -1]

\* every advertisement the radio stack may hand to onResult
Devices == [haveServiceUUID : BOOLEAN,
            serviceUUID : {waveServiceUUID, wavePlusServiceUUID, otherServiceUUID},
            address : Addrs]

\* The state of a fresh boot: globals and locals as the sketch initialises them
Fresh ==
  [ pc |-> "setup",
    cbpc |-> "idle",
    cbDevice |-> NoDevice,
    scanRunning |-> FALSE,
    scanClock |-> 0,
    found |-> FALSE,
    address |-> NoAddress,
    pAddress |-> NoAddress,
    connected |-> FALSE,
    services |-> {},
    queried |-> <<>>,
    airthingsProduct |-> WAVE,
    pRemoteService |-> nullptr,
    serviceChars |-> {},
    ran |-> <<>>,
    retval |-> FALSE,
    regs |-> NoRegs,
    rawdata |-> NoData,
    readings |-> EmptyReadings,
    writer |-> [f \in Fields |-> "none"],
    wifi |-> FALSE,
    elapsed |-> 0,
    mqttConnected |-> FALSE,
    attempted |-> <<>>,
    published |-> <<>>,
    recorded |-> "none",
    timeToSleep |-> 0,
    wakeTimer |-> [hi |-> 0, lo |-> 0, wrapped |-> FALSE] ]

Init ==
  /\ pc = Fresh.pc
  /\ cbpc = Fresh.cbpc
  /\ cbDevice = Fresh.cbDevice
  /\ scanRunning = Fresh.scanRunning
  /\ scanClock = Fresh.scanClock
  /\ found = Fresh.found
  /\ address = Fresh.address
  /\ pAddress = Fresh.pAddress
  /\ connected = Fresh.connected
  /\ services = Fresh.services
  /\ queried = Fresh.queried
  /\ airthingsProduct = Fresh.airthingsProduct
  /\ pRemoteService = Fresh.pRemoteService
  /\ serviceChars = Fresh.serviceChars
  /\ ran = Fresh.ran
  /\ retval = Fresh.retval
  /\ regs = Fresh.regs
  /\ rawdata = Fresh.rawdata
  /\ readings = Fresh.readings
  /\ writer = Fresh.writer
  /\ wifi = Fresh.wifi
  /\ elapsed = Fresh.elapsed
  /\ mqttConnected = Fresh.mqttConnected
  /\ attempted = Fresh.attempted
  /\ published = Fresh.published
  /\ recorded = Fresh.recorded
  /\ timeToSleep = Fresh.timeToSleep
  /\ wakeTimer = Fresh.wakeTimer
  /\ prevSleep = 0

\* deep sleep and a panic both restart the sketch from setup()
Restart(prev) ==
  /\ pc' = Fresh.pc
  /\ cbpc' = Fresh.cbpc
  /\ cbDevice' = Fresh.cbDevice
  /\ scanRunning' = Fresh.scanRunning
  /\ scanClock' = Fresh.scanClock
  /\ found' = Fresh.found
  /\ address' = Fresh.address
  /\ pAddress' = Fresh.pAddress
  /\ connected' = Fresh.connected
  /\ services' = Fresh.services
  /\ queried' = Fresh.queried
  /\ airthingsProduct' = Fresh.airthingsProduct
  /\ pRemoteService' = Fresh.pRemoteService
  /\ serviceChars' = Fresh.serviceChars
  /\ ran' = Fresh.ran
  /\ retval' = Fresh.retval
  /\ regs' = Fresh.regs
  /\ rawdata' = Fresh.rawdata
  /\ readings' = Fresh.readings
  /\ writer' = Fresh.writer
  /\ wifi' = Fresh.wifi
  /\ elapsed' = Fresh.elapsed
  /\ mqttConnected' = Fresh.mqttConnected
  /\ attempted' = Fresh.attempted
  /\ published' = Fresh.published
  /\ recorded' = Fresh.recorded
  /\ timeToSleep' = Fresh.timeToSleep
  /\ wakeTimer' = Fresh.wakeTimer
  /\ prevSleep' = prev

\* ------------------------------------------------------------------------
\* setup(): scan
\* ------------------------------------------------------------------------
\* WiFi.begin, BLEDevice::init, pBLEScan->start(30) begins the scan and blocks
SetupScan ==
  /\ pc = "setup"
  /\ pc' = "scan"
  /\ scanRunning' = TRUE
  /\ UNCHANGED <<cbpc, cbDevice, scanClock, found, address, pAddress, bleVars,
                 readVars, wifi, elapsed, mqttVars, recorded, timeToSleep,
                 wakeTimer, prevSleep>>

\* one second of the scan window passes; the scan ends when the window is used up
ScanTick ==
  /\ scanRunning
  /\ scanClock < SCAN_SECONDS
  /\ scanClock' = scanClock + 1
  /\ scanRunning' = (scanClock + 1 < SCAN_SECONDS)
  /\ UNCHANGED <<pc, cbpc, cbDevice, found, address, pAddress, bleVars, readVars,
                 wifi, elapsed, mqttVars, recorded, timeToSleep, wakeTimer,
                 prevSleep>>

\* the condition of onResult
IsAirthings(device) ==
  \/ device.haveServiceUUID /\ device.serviceUUID = waveServiceUUID
  \/ device.haveServiceUUID /\ device.serviceUUID = wavePlusServiceUUID

\* the radio stack delivers an advertisement: onResult evaluates its condition
onResult(device) ==
  /\ scanRunning
  /\ cbpc = "idle"
  /\ IF IsAirthings(device)
       THEN /\ cbDevice' = device
            /\ cbpc' = "stop"
       ELSE UNCHANGED <<cbDevice, cbpc>>
  /\ UNCHANGED <<pc, scanRunning, scanClock, found, address, pAddress, bleVars,
                 readVars, wifi, elapsed, mqttVars, recorded, timeToSleep,
                 wakeTimer, prevSleep>>

\* onResult without device.getScan()->stop(): the scan goes on
onResultNoStop ==
  /\ cbpc = "stop"
  /\ cbpc' = "address"
  /\ UNCHANGED <<pc, cbDevice, scanRunning, scanClock, found, address, pAddress,
                 bleVars, readVars, wifi, elapsed, mqttVars, recorded,
                 timeToSleep, wakeTimer, prevSleep>>

\* device.getScan()->stop(): ends the scan, which releases start()
onResultStop ==
  /\ cbpc = "stop"
  /\ scanRunning' = FALSE
  /\ cbpc' = "address"
  /\ UNCHANGED <<pc, cbDevice, scanClock, found, address, pAddress, bleVars,
                 readVars, wifi, elapsed, mqttVars, recorded, timeToSleep,
                 wakeTimer, prevSleep>>

\* onResult without the assignment of address
onResultAddressSkipped ==
  /\ cbpc = "address"
  /\ cbpc' = "found"
  /\ UNCHANGED <<pc, cbDevice, scanRunning, scanClock, found, address, pAddress,
                 bleVars, readVars, wifi, elapsed, mqttVars, recorded,
                 timeToSleep, wakeTimer, prevSleep>>

\* address = new BLEAddress(device.getAddress())
onResultAddress ==
  /\ cbpc = "address"
  /\ address' = cbDevice.address
  /\ cbpc' = "found"
  /\ UNCHANGED <<pc, cbDevice, scanRunning, scanClock, found, pAddress, bleVars,
                 readVars, wifi, elapsed, mqttVars, recorded, timeToSleep,
                 wakeTimer, prevSleep>>

\* found = true, and onResult returns
onResultFound ==
  /\ cbpc = "found"
  /\ found' = TRUE
  /\ cbpc' = "idle"
  /\ cbDevice' = NoDevice
  /\ UNCHANGED <<pc, scanRunning, scanClock, address, pAddress, bleVars,
                 readVars, wifi, elapsed, mqttVars, recorded, timeToSleep,
                 wakeTimer, prevSleep>>

\* pBLEScan->start(30) returns once the scan has ended; its window timer is gone
ScanReturn ==
  /\ pc = "scan"
  /\ ~scanRunning
  /\ pc' = "delay"
  /\ scanClock' = 0
  /\ UNCHANGED <<cbpc, cbDevice, scanRunning, found, address, pAddress, bleVars, readVars, wifi, elapsed, mqttVars,
                 recorded, timeToSleep, wakeTimer, prevSleep>>

\* delay(500): "give callback some time to execute"
Delay ==
  /\ pc = "delay"
  /\ pc' = "check"
  /\ UNCHANGED <<scanVars, pAddress, bleVars, readVars, wifi, elapsed, mqttVars,
                 recorded, timeToSleep, wakeTimer, prevSleep>>

\* TimeToSleep with the scan-timeout branch given the long interval
TimeToSleepLongOnTimeout(foundAirthings, ok) ==
  IF ~foundAirthings THEN READ_WAIT_SECONDS
  ELSE IF ok THEN READ_WAIT_SECONDS
  ELSE READ_WAIT_RETRY_SECONDS

\* the if / else if / else of setup() that chooses timeToSleep
TimeToSleep(foundAirthings, ok) ==
  IF ~foundAirthings THEN READ_WAIT_RETRY_SECONDS
  ELSE IF ok THEN READ_WAIT_SECONDS
  ELSE READ_WAIT_RETRY_SECONDS

\* getAndRecordReadings returns ok to setup(), which sets timeToSleep
Return(ok) ==
  /\ recorded' = IF ok THEN "true" ELSE "false"
  /\ timeToSleep' = TimeToSleep(TRUE, ok)
  /\ pc' = "sleep"

\* if (!callback->foundAirthings()) ... else getAndRecordReadings(getAddress())
CheckFound ==
  /\ pc = "check"
  /\ IF ~found
       THEN /\ timeToSleep' = TimeToSleep(FALSE, FALSE)
            /\ pc' = "sleep"
            /\ UNCHANGED pAddress
       ELSE /\ pAddress' = address
            /\ pc' = "connect"
            /\ UNCHANGED timeToSleep
  /\ UNCHANGED <<scanVars, bleVars, readVars, wifi, elapsed, mqttVars, recorded,
                 wakeTimer, prevSleep>>

\* ------------------------------------------------------------------------
\* getAndRecordReadings(): the radio link
\* ------------------------------------------------------------------------
\* client->connect(pAddress); the device reached exposes some set of services
Connect ==
  /\ pc = "connect"
  /\ \E ok \in BOOLEAN, svcs \in SUBSET {waveServiceUUID, wavePlusServiceUUID} :
       IF ok
         THEN /\ connected' = TRUE
              /\ services' = svcs
              /\ pc' = "getService"
              /\ UNCHANGED <<recorded, timeToSleep>>
         ELSE /\ Return(FALSE)
              /\ UNCHANGED <<connected, services>>
  /\ UNCHANGED <<scanVars, pAddress, queried, airthingsProduct, pRemoteService,
                 serviceChars, readVars, wifi, elapsed, mqttVars, wakeTimer,
                 prevSleep>>

\* getService(uuid): the service, or nullptr when the device does not expose it
getService(svcs, uuid) == IF uuid \in svcs THEN uuid ELSE nullptr

\* SelectService with the tag left at WAVE when the Wave Plus service is used
SelectServiceKeepsTag(svcs) ==
  IF getService(svcs, waveServiceUUID) # nullptr
    THEN [ product |-> WAVE,
           service |-> getService(svcs, waveServiceUUID),
           queried |-> <<waveServiceUUID>> ]
    ELSE [ product |-> WAVE,
           service |-> getService(svcs, wavePlusServiceUUID),
           queried |-> <<waveServiceUUID, wavePlusServiceUUID>> ]

\* airthingsProduct = WAVE; getService(waveServiceUUID); if that is nullptr,
\* getService(wavePlusServiceUUID) and airthingsProduct = WAVEPLUS
SelectService(svcs) ==
  IF getService(svcs, waveServiceUUID) # nullptr
    THEN [ product |-> WAVE,
           service |-> getService(svcs, waveServiceUUID),
           queried |-> <<waveServiceUUID>> ]
    ELSE [ product |-> WAVEPLUS,
           service |-> getService(svcs, wavePlusServiceUUID),
           queried |-> <<waveServiceUUID, wavePlusServiceUUID>> ]

\* the service lookup and the "refused its service UUID" exit
RetrieveService ==
  /\ pc = "getService"
  /\ LET sel == SelectService(services)
     IN /\ airthingsProduct' = sel.product
        /\ pRemoteService' = sel.service
        /\ queried' = sel.queried
        /\ IF sel.service = nullptr
             THEN /\ connected' = FALSE
                  /\ Return(FALSE)
                  /\ UNCHANGED serviceChars
             ELSE /\ \E chars \in CharSets : serviceChars' = chars
                  /\ pc' = "readSensors"
                  /\ UNCHANGED <<connected, recorded, timeToSleep>>
  /\ UNCHANGED <<scanVars, pAddress, services, readVars, wifi, elapsed, mqttVars,
                 wakeTimer, prevSleep>>

\* ------------------------------------------------------------------------
\* readSensors(): the switch on airthingsProduct
\* ------------------------------------------------------------------------
\* the case label the switch jumps to
SwitchTarget(product) ==
  IF product = WAVE THEN "readWaveSensors" ELSE "readWavePlusSensors"

\* where control goes after case WAVE: there is no break, so it falls into
\* case WAVEPLUS
AfterCaseWave == "readWavePlusSensors"

readSensors ==
  /\ pc = "readSensors"
  /\ retval' = FALSE
  /\ pc' = SwitchTarget(airthingsProduct)
  /\ UNCHANGED <<scanVars, pAddress, bleVars, ran, regs, rawdata, readings, writer,
                 wifi, elapsed, mqttVars, recorded, timeToSleep, wakeTimer,
                 prevSleep>>

\* the nullptr test of readWaveSensors on its four characteristics
WaveCharsPresent(chars) ==
  /\ temperatureUUID \in chars
  /\ humidityUUID \in chars
  /\ radon24UUID \in chars
  /\ radonLongTermUUID \in chars

\* retval = readWaveSensors(pRemoteService, readings)
readWaveSensors ==
  /\ pc = "readWaveSensors"
  /\ ran' = Append(ran, "readWaveSensors")
  /\ IF WaveCharsPresent(serviceChars)
       THEN \E r \in SampleRegs :
              /\ regs' = r
              /\ readings' = WaveDecode(readings, r)
              /\ writer' = [f \in Fields |->
                              IF f \in WaveFields THEN "readWaveSensors" ELSE writer[f]]
              /\ retval' = TRUE
       ELSE /\ retval' = FALSE
            /\ UNCHANGED <<regs, readings, writer>>
  /\ pc' = AfterCaseWave
  /\ UNCHANGED <<scanVars, pAddress, bleVars, rawdata, wifi, elapsed, mqttVars,
                 recorded, timeToSleep, wakeTimer, prevSleep>>

\* what pCharacteristic->readValue(); readRawData() gives when the
\* characteristic exists: the bytes read, or nullptr
ReadOutcomes ==
  {[kind |-> "data", bytes |-> b] : b \in SampleBuffers}
    \cup {[kind |-> "nullptr", bytes |-> NoData]}

\* pCharacteristic == nullptr is not tested: readValue() and readRawData() are
\* called through a null pointer, which is undefined behaviour.  The sketch may
\* panic (a load from address 0 traps on the ESP32), or go on with whatever
\* readRawData() then yields
NullDerefOutcomes == ReadOutcomes \cup {[kind |-> "panic", bytes |-> NoData]}

\* the rest of readWavePlusSensors, from the nullptr test of pRawdata on
PlusResult(pRawdata) ==
  CASE pRawdata.kind = "panic" ->
         /\ pc' = "crashed"
         /\ UNCHANGED <<retval, rawdata, readings, writer>>
    [] pRawdata.kind = "nullptr" ->
         /\ retval' = FALSE
         /\ pc' = "readDone"
         /\ UNCHANGED <<rawdata, readings, writer>>
    [] pRawdata.kind = "data" ->
         /\ rawdata' = pRawdata.bytes
         /\ readings' = PlusDecode(pRawdata.bytes)
         /\ writer' = [f \in Fields |-> "readWavePlusSensors"]
         /\ retval' = TRUE
         /\ pc' = "readDone"

\* retval = readWavePlusSensors(pRemoteService, readings)
readWavePlusSensors ==
  /\ pc = "readWavePlusSensors"
  /\ ran' = Append(ran, "readWavePlusSensors")
  /\ IF characteristicUUID \in serviceChars
       THEN \E pRawdata \in ReadOutcomes : PlusResult(pRawdata)
       ELSE /\ pc' = "nullDeref"
            /\ UNCHANGED <<retval, rawdata, readings, writer>>
  /\ UNCHANGED <<scanVars, pAddress, bleVars, regs, wifi, elapsed, mqttVars,
                 recorded, timeToSleep, wakeTimer, prevSleep>>

\* readWavePlusSensors goes on through the null pCharacteristic
NullDereference ==
  /\ pc = "nullDeref"
  /\ \E pRawdata \in NullDerefOutcomes : PlusResult(pRawdata)
  /\ UNCHANGED <<scanVars, pAddress, bleVars, ran, regs, wifi, elapsed, mqttVars,
                 recorded, timeToSleep, wakeTimer, prevSleep>>

\* ReadDone without client->disconnect() before the WiFi wait
ReadDoneKeepsLink ==
  /\ pc = "readDone"
  /\ IF ~retval
       THEN Return(FALSE)
       ELSE /\ pc' = "wifiWait"
            /\ UNCHANGED <<recorded, timeToSleep>>
  /\ UNCHANGED <<scanVars, pAddress, bleVars, readVars, wifi, elapsed, mqttVars,
                 wakeTimer, prevSleep>>

\* if (!readSensors(...)) return false;  client->disconnect();
ReadDone ==
  /\ pc = "readDone"
  /\ IF ~retval
       THEN /\ Return(FALSE)
            /\ UNCHANGED connected
       ELSE /\ connected' = FALSE
            /\ pc' = "wifiWait"
            /\ UNCHANGED <<recorded, timeToSleep>>
  /\ UNCHANGED <<scanVars, pAddress, services, queried, airthingsProduct,
                 pRemoteService, serviceChars, readVars, wifi, elapsed, mqttVars,
                 wakeTimer, prevSleep>>

\* ------------------------------------------------------------------------
\* getAndRecordReadings(): WiFi wait, MQTT connect, publishes
\* ------------------------------------------------------------------------
\* the loop condition with <= for <: one poll past the budget
WaitMoreInclusive(connectedNow, waited) ==
  ~connectedNow /\ waited <= CONNECT_WAIT_SECONDS * SECONDS_TO_MILLIS

\* while (WiFi.status() != WL_CONNECTED && millis() < start + 30 * 1000)
WaitMore(connectedNow, waited) ==
  ~connectedNow /\ waited < CONNECT_WAIT_SECONDS * SECONDS_TO_MILLIS

\* one evaluation of the loop condition, and delay(500) when it holds
WifiWait ==
  /\ pc = "wifiWait"
  /\ IF WaitMore(wifi, elapsed)
       THEN /\ elapsed' = elapsed + WIFI_POLL_MILLIS
            /\ pc' = "wifiWait"
       ELSE /\ pc' = "wifiCheck"
            /\ UNCHANGED elapsed
  /\ UNCHANGED <<scanVars, pAddress, bleVars, readVars, wifi, mqttVars, recorded,
                 timeToSleep, wakeTimer, prevSleep>>

\* if (WiFi.status() != WL_CONNECTED) return false;  (start is not read again
\* once the wait has passed, so the loop's clock is dropped there)
WifiCheck ==
  /\ pc = "wifiCheck"
  /\ IF ~wifi
       THEN /\ Return(FALSE)
            /\ UNCHANGED elapsed
       ELSE /\ pc' = "mqttConnect"
            /\ elapsed' = 0
            /\ UNCHANGED <<recorded, timeToSleep>>
  /\ UNCHANGED <<scanVars, pAddress, bleVars, readVars, wifi, mqttVars,
                 wakeTimer, prevSleep>>

\* mqtt.connect(...) with its result dropped: the publishes follow regardless
MqttConnectUnchecked ==
  /\ pc = "mqttConnect"
  /\ \E ok \in BOOLEAN :
       /\ mqttConnected' = ok
       /\ pc' = "publish"
  /\ UNCHANGED <<scanVars, pAddress, bleVars, readVars, wifi, elapsed, attempted,
                 published, recorded, timeToSleep, wakeTimer, prevSleep>>

\* if (!mqtt.connect(MQTT_CLIENT, MQTT_USER, MQTT_PASS)) return false;
MqttConnect ==
  /\ pc = "mqttConnect"
  /\ \E ok \in BOOLEAN :
       IF ok
         THEN /\ mqttConnected' = TRUE
              /\ pc' = "publish"
              /\ UNCHANGED <<recorded, timeToSleep>>
         ELSE /\ Return(FALSE)
              /\ UNCHANGED mqttConnected
  /\ UNCHANGED <<scanVars, pAddress, bleVars, readVars, wifi, elapsed, attempted,
                 published, wakeTimer, prevSleep>>

\* the first || chain of publishes, for every product
MandatoryTopics == <<TOPIC_RADON_24HR, TOPIC_RADON_LIFETIME, TOPIC_TEMPERATURE,
                     TOPIC_HUMIDITY>>
\* the second || chain, inside if (airthingsProduct == WAVEPLUS)
WavePlusTopics == <<TOPIC_PRESSURE, TOPIC_CO2, TOPIC_VOC, TOPIC_VERSION,
                    TOPIC_AMBIENTLIGHT>>

\* Topics with the first publish call made twice
TopicsRepeatRadon(product) ==
  <<TOPIC_RADON_24HR>> \o MandatoryTopics
    \o (IF product = WAVEPLUS THEN WavePlusTopics ELSE <<>>)

\* Topics without the if (airthingsProduct == WAVEPLUS) block
TopicsMandatoryOnly(product) == MandatoryTopics

\* the publish calls getAndRecordReadings makes for a product, in order
Topics(product) ==
  IF product = WAVEPLUS THEN MandatoryTopics \o WavePlusTopics
  ELSE MandatoryTopics

\* the readings member each publish call passes as payload
Payload(topic, r) ==
  CASE topic = TOPIC_RADON_24HR -> r.radon
    [] topic = TOPIC_RADON_LIFETIME -> r.radonLongterm
    [] topic = TOPIC_TEMPERATURE -> r.temperature
    [] topic = TOPIC_HUMIDITY -> r.humidity
    [] topic = TOPIC_PRESSURE -> r.pressure
    [] topic = TOPIC_CO2 -> r.co2
    [] topic = TOPIC_VOC -> r.voc
    [] topic = TOPIC_VERSION -> r.version
    [] topic = TOPIC_AMBIENTLIGHT -> r.ambientLight

\* AfterPublish with the results and-ed at the end instead of short-circuited
AfterPublishGoesOn(ok, last) ==
  IF last THEN (IF ok THEN "true" ELSE "false") ELSE "next"

\* !mqtt.publish(..) || ..: a failed publish returns false at once, the last
\* successful one returns true, any other goes on to the next call
AfterPublish(ok, last) ==
  IF ~ok THEN "false" ELSE IF last THEN "true" ELSE "next"

\* one mqtt.publish call of the chains
Publish ==
  /\ pc = "publish"
  /\ LET topics == Topics(airthingsProduct)
         i == Len(attempted) + 1
         topic == topics[i]
     IN \E ok \in BOOLEAN :
          /\ attempted' = Append(attempted, topic)
          /\ published' = IF ok
                            THEN Append(published, <<topic, Payload(topic, readings)>>)
                            ELSE published
          /\ LET after == AfterPublish(ok, i = Len(topics))
             IN CASE after = "false" -> Return(FALSE)
                  [] after = "true" -> Return(TRUE)
                  [] after = "next" -> /\ pc' = "publish"
                                       /\ UNCHANGED <<recorded, timeToSleep>>
  /\ UNCHANGED <<scanVars, pAddress, bleVars, readVars, wifi, elapsed,
                 mqttConnected, wakeTimer, prevSleep>>

\* ------------------------------------------------------------------------
\* setup(): deep sleep; the environment
\* ------------------------------------------------------------------------
\* the product taken with SECONDS_TO_MILLIS for uS_TO_S_FACTOR
WakeupMillis(seconds) ==
  LET low == seconds * (SECONDS_TO_MILLIS % 65536)
      high == seconds * (SECONDS_TO_MILLIS \div 65536) + low \div 65536
  IN [ hi |-> high % 65536, lo |-> low % 65536, wrapped |-> high >= 65536 ]

\* timeToSleep * uS_TO_S_FACTOR in 32-bit unsigned arithmetic (unsigned long on
\* the ESP32), kept as two 16-bit halves: the value is hi * 65536 + lo, and
\* wrapped tells whether the product passed 2^32
WakeupMicros(seconds) ==
  LET low == seconds * (uS_TO_S_FACTOR % 65536)
      high == seconds * (uS_TO_S_FACTOR \div 65536) + low \div 65536
  IN [ hi |-> high % 65536, lo |-> low % 65536, wrapped |-> high >= 65536 ]

\* esp_sleep_enable_timer_wakeup(...); esp_deep_sleep_start();
DeepSleep ==
  /\ pc = "sleep"
  /\ wakeTimer' = WakeupMicros(timeToSleep)
  /\ pc' = "asleep"
  /\ UNCHANGED <<scanVars, pAddress, bleVars, readVars, wifi, elapsed, mqttVars,
                 recorded, timeToSleep, prevSleep>>

\* the wake-up timer fires: the chip resets and setup() runs again
Wake ==
  /\ pc = "asleep"
  /\ Restart(timeToSleep)

\* the panic handler resets the chip: setup() runs again
Reboot ==
  /\ pc = "crashed"
  /\ Restart(0)

\* the access point association started by WiFi.begin completes, or is lost
WiFiChange ==
  /\ pc \notin {"setup", "sleep", "asleep", "crashed"}
  /\ wifi' = ~wifi
  /\ UNCHANGED <<pc, scanVars, pAddress, bleVars, readVars, elapsed, mqttVars,
                 recorded, timeToSleep, wakeTimer, prevSleep>>

Next ==
  \/ SetupScan
  \/ ScanTick
  \/ \E device \in Devices : onResult(device)
  \/ onResultStop
  \/ onResultAddress
  \/ onResultFound
  \/ ScanReturn
  \/ Delay
  \/ CheckFound
  \/ Connect
  \/ RetrieveService
  \/ readSensors
  \/ readWaveSensors
  \/ readWavePlusSensors
  \/ NullDereference
  \/ ReadDone
  \/ WifiWait
  \/ WifiCheck
  \/ MqttConnect
  \/ Publish
  \/ DeepSleep
  \/ Wake
  \/ Reboot
  \/ WiFiChange

Spec == Init /\ [][Next]_vars

\* ------------------------------------------------------------------------
\* Scheduling: the sketch's task runs setup() to the end, the BLE task runs
\* a started onResult to the end, the scan window's timer runs, and the chip
\* wakes from its timer and restarts after a panic
\* ------------------------------------------------------------------------
Controller ==
  \/ SetupScan \/ ScanReturn \/ Delay \/ CheckFound \/ Connect
  \/ RetrieveService \/ readSensors \/ readWaveSensors
  \/ readWavePlusSensors \/ NullDereference \/ ReadDone \/ WifiWait
  \/ WifiCheck \/ MqttConnect \/ Publish \/ DeepSleep
Callback == onResultStop \/ onResultAddress \/ onResultFound
Chip == Wake \/ Reboot

FairSpec ==
  /\ Spec
  /\ WF_vars(Controller)
  /\ WF_vars(Callback)
  /\ WF_vars(ScanTick)
  /\ WF_vars(Chip)

\* ------------------------------------------------------------------------
\* The register decoder on its own: readWaveSensors' four conversions and
\* readWavePlusSensors' nine, applied to raw values a device may return
\* ------------------------------------------------------------------------
\* 16-bit register values: zero, the two worked values, both sides of the
\* sign bit, a value with the sign bit set, and the largest
RawSamples == {0, 185, 2150, 32767, 32768, 65436, 65535}
DecRegs == [WaveFields -> RawSamples]
\* 20-byte values of the Wave Plus characteristic: the struct's 16 bytes and
\* 4 more that the struct does not cover
DecBuffers ==
  { <<1, 90, 7, 0, 185, 0, 74, 0, 102, 8, 64, 31, 144, 1, 50, 0, 0, 0, 0, 0>>,
    <<2, 61, 0, 0, 37, 0, 0, 1, 156, 255, 0, 0, 0, 0, 0, 0, 1, 2, 3, 4>>,
    <<10, 20, 30, 40, 50, 60, 70, 80, 90, 100, 110, 120, 130, 140, 150, 160,
      170, 180, 190, 200>>,
    <<255, 255, 255, 255, 255, 255, 255, 255, 255, 255, 255, 255, 255, 255,
      255, 255, 255, 255, 255, 255>>,
    <<0, 0, 0, 0, 0, 0, 0, 0, 0, 128, 0, 0, 0, 0, 0, 0, 0, 0, 0, 0>> }

DecInit ==
  /\ pc = "decode"
  /\ regs \in DecRegs
  /\ rawdata \in DecBuffers
  /\ cbpc = Fresh.cbpc
  /\ cbDevice = Fresh.cbDevice
  /\ scanRunning = Fresh.scanRunning
  /\ scanClock = Fresh.scanClock
  /\ found = Fresh.found
  /\ address = Fresh.address
  /\ pAddress = Fresh.pAddress
  /\ connected = Fresh.connected
  /\ services = Fresh.services
  /\ queried = Fresh.queried
  /\ airthingsProduct = Fresh.airthingsProduct
  /\ pRemoteService = Fresh.pRemoteService
  /\ serviceChars = Fresh.serviceChars
  /\ ran = Fresh.ran
  /\ retval = Fresh.retval
  /\ readings = Fresh.readings
  /\ writer = Fresh.writer
  /\ wifi = Fresh.wifi
  /\ elapsed = Fresh.elapsed
  /\ mqttConnected = Fresh.mqttConnected
  /\ attempted = Fresh.attempted
  /\ published = Fresh.published
  /\ recorded = Fresh.recorded
  /\ timeToSleep = Fresh.timeToSleep
  /\ wakeTimer = Fresh.wakeTimer
  /\ prevSleep = 0

\* the four assignments of readWaveSensors on the registers read
DecodeWave ==
  /\ pc = "decode"
  /\ readings' = WaveDecode(readings, regs)
  /\ pc' = "decodedWave"
  /\ UNCHANGED <<scanVars, pAddress, bleVars, ran, retval, regs, rawdata, writer,
                 wifi, elapsed, mqttVars, recorded, timeToSleep, wakeTimer,
                 prevSleep>>

\* the nine assignments of readWavePlusSensors on the bytes read
DecodePlus ==
  /\ pc = "decode"
  /\ readings' = PlusDecode(rawdata)
  /\ pc' = "decodedPlus"
  /\ UNCHANGED <<scanVars, pAddress, bleVars, ran, retval, regs, rawdata, writer,
                 wifi, elapsed, mqttVars, recorded, timeToSleep, wakeTimer,
                 prevSleep>>

DecNext == DecodeWave \/ DecodePlus
DecSpec == DecInit /\ [][DecNext]_vars

\* ------------------------------------------------------------------------
\* Properties
\* ------------------------------------------------------------------------
Sleeping == pc \in {"sleep", "asleep"}
PublishedTopics == {published[i][1] : i \in 1..Len(published)}
SeqToSet(q) == {q[i] : i \in 1..Len(q)}

\* the three stages of a cycle, as facts of the state
DiscoverySucceeded == pAddress # NoAddress
AcquisitionSucceeded ==
  /\ queried # <<>>
  /\ pRemoteService # nullptr
  /\ retval
PublishingSucceeded ==
  /\ mqttConnected
  /\ attempted = Topics(airthingsProduct)
  /\ Len(published) = Len(attempted)

\* C1: a cycle that has reached the sleep step sleeps 3600 s exactly when
\* discovery, acquisition and publishing all succeeded in that cycle and 30 s
\* otherwise, whatever the previous cycle's outcome (prevSleep) was.
C1_SleepPolicy ==
  Sleeping =>
    /\ timeToSleep \in {READ_WAIT_RETRY_SECONDS, READ_WAIT_SECONDS}
    /\ timeToSleep = READ_WAIT_SECONDS
         <=> (DiscoverySucceeded /\ AcquisitionSucceeded /\ PublishingSucceeded)

\* a fully successful cycle right after a failed one sleeps the full hour
C1_Witness ==
  /\ pc = "asleep"
  /\ prevSleep = READ_WAIT_RETRY_SECONDS
  /\ timeToSleep = READ_WAIT_SECONDS
  /\ PublishingSucceeded

\* C2: once getAndRecordReadings has opened the connection, the connection is
\* closed by the time the function has returned, on every exit path.
C2_ClosedOnReturn == recorded # "none" => ~connected

\* C3: in every cycle that has passed the dispatch of readSensors, exactly one
\* read procedure has run, the one of the variant tag.
C3_ExactlyOneProcedure ==
  pc \in {"readDone", "wifiWait", "wifiCheck", "mqttConnect", "publish"}
    => ran = <<SwitchTarget(airthingsProduct)>>

\* the quantities of the reading that apply to a variant
FieldsOf(product) == IF product = WAVE THEN WaveFields ELSE Fields

\* C4: whenever a message has been published, acquisition succeeded and every
\* quantity that applies to the variant was populated by that variant's read
\* procedure.
C4_PublishedFromOwnReading ==
  published # <<>> =>
    /\ AcquisitionSucceeded
    /\ \A f \in FieldsOf(airthingsProduct) :
         writer[f] = SwitchTarget(airthingsProduct)

\* a VariantA service that lacks one of the four characteristics
WaveCharMissing ==
  /\ pRemoteService = waveServiceUUID
  /\ airthingsProduct = WAVE
  /\ ~WaveCharsPresent(serviceChars)

\* C5: for a VariantA device with one of the four characteristics absent,
\* acquisition reports failure: nothing is decoded, nothing is published, the
\* cycle does not halt, and once it sleeps it sleeps the retry interval.
C5_MissingCharacteristicFails ==
  WaveCharMissing =>
    /\ readings = EmptyReadings
    /\ published = <<>>
    /\ pc # "crashed"
    /\ pc = "readDone" => ~retval
    /\ Sleeping => (recorded = "false" /\ timeToSleep = READ_WAIT_RETRY_SECONDS)

\* C6: in a successful cycle with a VariantA device whose four registers were
\* read, the four payloads published are the VariantA decodings of those
\* registers (and so never the VariantB decodings of some other bytes).
C6_WavePayloads ==
  (recorded = "true" /\ airthingsProduct = WAVE /\ regs \in SampleRegs) =>
    /\ published = [i \in 1..Len(MandatoryTopics) |->
                      <<MandatoryTopics[i],
                        Payload(MandatoryTopics[i], WaveDecode(EmptyReadings, regs))>>]

\* the VariantB read procedure ran and could not obtain its data
PlusReadFailed ==
  /\ "readWavePlusSensors" \in SeqToSet(ran)
  /\ characteristicUUID \notin serviceChars \/ rawdata = NoData

\* C7: when the VariantB read procedure cannot obtain its data, acquisition
\* reports failure and the cycle goes on to the 30-second retry sleep; it never
\* crashes or halts.
C7_PlusFailureSleeps ==
  PlusReadFailed =>
    /\ pc # "crashed"
    /\ Sleeping => (recorded = "false" /\ timeToSleep = READ_WAIT_RETRY_SECONDS)

\* C8: once the services have been looked up, the VariantA service was asked
\* for first and the VariantB service only when VariantA is absent; the tag is
\* WAVE exactly when the device exposes the VariantA service, WAVEPLUS with
\* the VariantB service in hand when it exposes only that one, and when it
\* exposes neither the function has returned false with the connection
\* closed and no read procedure run.
C8_ServiceSelection ==
  queried # <<>> =>
    /\ queried[1] = waveServiceUUID
    /\ Len(queried) = 1 <=> waveServiceUUID \in services
    /\ Len(queried) > 1 => queried = <<waveServiceUUID, wavePlusServiceUUID>>
    /\ airthingsProduct = WAVE <=> waveServiceUUID \in services
    /\ airthingsProduct = WAVE => pRemoteService = waveServiceUUID
    /\ services = {wavePlusServiceUUID} =>
         (airthingsProduct = WAVEPLUS /\ pRemoteService = wavePlusServiceUUID)
    /\ services = {} =>
         /\ pRemoteService = nullptr
         /\ ~connected
         /\ ran = <<>>
         /\ Sleeping
         /\ recorded = "false"
         /\ timeToSleep = READ_WAIT_RETRY_SECONDS

\* a device that exposes neither service: both were asked for, the link is closed
C8_Witness ==
  /\ services = {}
  /\ queried = <<waveServiceUUID, wavePlusServiceUUID>>
  /\ ~connected
  /\ pc = "sleep"

\* C9: at most one publish call fails in a cycle and it is the last one made:
\* after it the function has returned false, no later topic is attempted and
\* the cycle sleeps the retry interval.
C9_StopAtFirstFailure ==
  /\ Len(attempted) <= Len(published) + 1
  /\ \A i \in 1..Len(published) : published[i][1] = attempted[i]
  /\ Len(attempted) > Len(published) =>
       /\ Sleeping
       /\ recorded = "false"
       /\ timeToSleep = READ_WAIT_RETRY_SECONDS

\* the second publish of a VariantB cycle failed: seven topics were never tried
C9_Witness ==
  /\ airthingsProduct = WAVEPLUS
  /\ attempted = <<TOPIC_RADON_24HR, TOPIC_RADON_LIFETIME>>
  /\ Len(published) = 1
  /\ pc = "asleep"

\* C10: when the publish pipeline has succeeded the four mandatory topics have
\* been published; a VariantB topic is published only under tag WAVEPLUS; and
\* a successful WAVEPLUS cycle has published all five VariantB topics.
C10_TopicSets ==
  /\ recorded = "true" => SeqToSet(MandatoryTopics) \subseteq PublishedTopics
  /\ PublishedTopics \cap SeqToSet(WavePlusTopics) # {} => airthingsProduct = WAVEPLUS
  /\ (recorded = "true" /\ airthingsProduct = WAVEPLUS)
       => SeqToSet(WavePlusTopics) \subseteq PublishedTopics

\* a successful VariantB cycle with all nine topics published
C10_Witness ==
  /\ recorded = "true"
  /\ airthingsProduct = WAVEPLUS
  /\ Len(published) = 9

\* C11: a publish is attempted only after the broker session was opened in
\* that cycle, the broker connection is attempted only after the check of the
\* network status read "connected", and a failed broker connection ends the
\* cycle with no publish attempted and the retry sleep.
C11_PublishNeedsSession ==
  /\ [](attempted # <<>> => mqttConnected)
  /\ [](pc = "publish" => mqttConnected)
  /\ [][/\ (pc' = "mqttConnect" /\ pc # "mqttConnect")
             => (pc = "wifiCheck" /\ wifi)
        /\ (mqttConnected' /\ ~mqttConnected) => pc = "mqttConnect"
        /\ (pc = "mqttConnect" /\ pc' \notin {"mqttConnect", "publish"})
             => /\ pc' = "sleep"
                /\ ~mqttConnected'
                /\ attempted' = <<>>
                /\ published' = <<>>
                /\ recorded' = "false"
                /\ timeToSleep' = READ_WAIT_RETRY_SECONDS]_vars

\* discovery and acquisition succeeded, the network was up, and the cycle is
\* about to sleep 30 s without a broker session and without any publish
C11_Witness ==
  /\ pc = "sleep"
  /\ DiscoverySucceeded
  /\ AcquisitionSucceeded
  /\ wifi
  /\ elapsed = 0
  /\ ~mqttConnected
  /\ published = <<>>
  /\ timeToSleep = READ_WAIT_RETRY_SECONDS

\* C12: the WiFi wait advances in steps of 500 ms and never past the 30 s
\* budget; it is left only when the status read "connected" or the budget is
\* used up; the status check after it returns false, with no broker
\* connection and no publish, when the status reads "not connected", and goes
\* on to the broker connection when it reads "connected".
C12_WifiWaitBounded ==
  /\ [](/\ elapsed % WIFI_POLL_MILLIS = 0
        /\ elapsed <= CONNECT_WAIT_SECONDS * SECONDS_TO_MILLIS)
  /\ [][/\ (pc = "wifiWait" /\ elapsed' # elapsed)
             => /\ elapsed' = elapsed + WIFI_POLL_MILLIS
                /\ ~wifi
                /\ pc' = "wifiWait"
        /\ (pc = "wifiWait" /\ pc' = "wifiCheck")
             => (wifi \/ elapsed = CONNECT_WAIT_SECONDS * SECONDS_TO_MILLIS)
        /\ (pc = "wifiCheck" /\ pc' # "wifiCheck")
             => IF wifi
                  THEN /\ pc' = "mqttConnect"
                       /\ recorded' = "none"
                  ELSE /\ pc' = "sleep"
                       /\ recorded' = "false"
                       /\ ~mqttConnected'
                       /\ attempted' = <<>>
                       /\ timeToSleep' = READ_WAIT_RETRY_SECONDS]_vars

\* the whole budget was waited, the network is still down, and the function
\* has returned false with no broker session
C12_Witness ==
  /\ pc = "sleep"
  /\ retval
  /\ elapsed = CONNECT_WAIT_SECONDS * SECONDS_TO_MILLIS
  /\ ~wifi
  /\ recorded = "false"
  /\ ~mqttConnected
  /\ attempted = <<>>

\* an advertisement that carries one of the two known service identifiers
CarriesKnownService(device) ==
  /\ device.haveServiceUUID
  /\ device.serviceUUID \in {waveServiceUUID, wavePlusServiceUUID}

\* C13: discovery's result is Found exactly when a matching advertisement
\* was delivered during the scan.  The callback handles only an advertisement
\* that carries the VariantA or VariantB service identifier; the scan is
\* stopped once the callback has called stop(), before found is set; the
\* controller goes on to acquisition only with found set; and a cycle that
\* sleeps with the result NotFound sleeps the retry interval and is one in
\* which the callback took up no advertisement.
C13_Discovery ==
  /\ cbpc # "idle" => CarriesKnownService(cbDevice)
  /\ cbpc \in {"address", "found"} => ~scanRunning
  /\ found => (~scanRunning /\ address \in Addrs)
  /\ DiscoverySucceeded => found
  /\ (Sleeping /\ recorded = "none")
       => /\ timeToSleep = READ_WAIT_RETRY_SECONDS
          /\ pAddress = NoAddress
          /\ cbpc = "idle"
          /\ ~found

C15_ReachesSleep == (pc = "setup") ~> (pc = "asleep")

\* the uint16_t members of the record, by their byte offsets from 0
RawTemperature == rawdata[9] + 256 * rawdata[10]
RawPressure == rawdata[11] + 256 * rawdata[12]

\* C16: the VariantA temperature register r decodes to r/100 for r < 32768
\* and to (r - 65536)/100 for r >= 32768, with two decimals (2150 gives
\* "21.50"); the humidity and radon registers are scaled as unsigned values.
C16_WaveTemperatureSigned ==
  pc = "decodedWave" =>
    LET t == regs.temperature
        h == regs.humidity
        r == regs.radon
    IN /\ readings.temperature
            = FixedStr(IF t < 32768 THEN t ELSE t - 65536, 2)
       /\ t = 2150 => readings.temperature = "21.50"
       /\ t = 32767 => readings.temperature = "327.67"
       /\ t = 32768 => readings.temperature = "-327.68"
       /\ t = 65436 => readings.temperature = "-1.00"
       /\ t = 65535 => readings.temperature = "-0.01"
       /\ readings.humidity = FixedStr(h, 2)
       /\ h = 32768 => readings.humidity = "327.68"
       /\ h = 65535 => readings.humidity = "655.35"
       /\ r = 32768 => readings.radon = "885.62"
       /\ r = 65535 => readings.radon = "1771.22"

\* a temperature register with the sign bit set, decoded below zero, next to
\* a humidity register with the same bit set, decoded above zero
C16_Witness ==
  /\ pc = "decodedWave"
  /\ regs.temperature = 65436
  /\ readings.temperature = "-1.00"
  /\ regs.humidity = 65535
  /\ readings.humidity = "655.35"

\* C17: the VariantB temperature, the unsigned 16-bit value r at bytes 8-9,
\* decodes to r/100 with two decimals and is never negative.
C17_PlusTemperatureUnsigned ==
  pc = "decodedPlus" =>
    /\ readings.temperature = FixedStr(RawTemperature, 2)
    /\ RawTemperature = 2150 => readings.temperature = "21.50"
    /\ RawTemperature = 32768 => readings.temperature = "327.68"
    /\ RawTemperature = 65436 => readings.temperature = "654.36"
    /\ RawTemperature = 65535 => readings.temperature = "655.35"

\* the raw value 65436, which VariantA would decode as -1.00
C17_Witness ==
  /\ pc = "decodedPlus"
  /\ RawTemperature = 65436
  /\ readings.temperature = "654.36"

\* the fields of the claim, each decoded from its byte offsets (from 0)
PlusOffsetsTo9 ==
  /\ readings.version = NatStr(rawdata[1])
  /\ readings.humidity = FixedStr(rawdata[2] * 50, 2)
  /\ readings.ambientLight = NatStr(rawdata[3])
  /\ readings.radon = NatStr(rawdata[5] + 256 * rawdata[6])
  /\ readings.radonLongterm = NatStr(rawdata[7] + 256 * rawdata[8])
  /\ readings.temperature = FixedStr(RawTemperature, 2)

\* no byte at offset n or later has a part in the decoded reading
DecodedWithin(n) ==
  \A i \in (n + 1)..Len(rawdata) :
    \A v \in {0, 255, (rawdata[i] + 1) % 256} :
      PlusDecode([rawdata EXCEPT ![i] = v]) = readings

\* C18 as stated: the offsets of bytes 0-9, and every decoded field,
\* pressure and the two gas fields included, inside a record of 10 bytes.
C18_TenByteRecord ==
  pc = "decodedPlus" => (PlusOffsetsTo9 /\ DecodedWithin(10))

\* C18: the offsets of bytes 0-9 are as stated, pressure is decoded from
\* bytes 10-11, co2 from bytes 12-13 and voc from bytes 14-15 (little-endian
\* uint16_t), and every decoded field lies inside the 16 bytes of
\* WavePlusRawReadings: bytes past offset 15 have no part in the reading.
C18_SixteenByteRecord ==
  pc = "decodedPlus" =>
    /\ PlusOffsetsTo9
    /\ readings.pressure = FixedStr(RoundDiv(RawPressure * 10, 50), 1)
    /\ readings.co2 = NatStr(rawdata[13] + 256 * rawdata[14])
    /\ readings.voc = NatStr(rawdata[15] + 256 * rawdata[16])
    /\ DecodedWithin(16)
    /\ ~DecodedWithin(10)

\* a 20-byte value whose bytes all differ: voc comes from bytes 14-15
C18_Witness ==
  /\ pc = "decodedPlus"
  /\ Len(rawdata) = 20
  /\ rawdata[15] = 150
  /\ rawdata[16] = 160
  /\ readings.voc = "41110"
  /\ readings.radon = "15410"

\* C19 as stated: the VariantA radon register 185 yields the string "5.0".
C19_RadonOneDecimal ==
  pc = "decodedWave" =>
    /\ regs.radon = 185 => readings.radon = "5.0"
    /\ regs.radonLongterm = 185 => readings.radonLongterm = "5.0"

\* C19: the VariantA radon registers r decode to r/37 printed with String's
\* default of two decimal places, so the register value 185 yields "5.00".
C19_RadonTwoDecimals ==
  pc = "decodedWave" =>
    /\ readings.radon
         = FixedStr(RoundDiv(regs.radon * 100, BECQUERELS_M2_TO_PICOCURIES_L), 2)
    /\ readings.radonLongterm
         = FixedStr(RoundDiv(regs.radonLongterm * 100,
                             BECQUERELS_M2_TO_PICOCURIES_L), 2)
    /\ regs.radon = 0 => readings.radon = "0.00"
    /\ regs.radon = 185 => readings.radon = "5.00"
    /\ regs.radon = 2150 => readings.radon = "58.11"
    /\ regs.radonLongterm = 185 => readings.radonLongterm = "5.00"
    /\ regs.radonLongterm = 32767 => readings.radonLongterm = "885.59"

\* the worked value of the claim: register 185
C19_Witness ==
  /\ pc = "decodedWave"
  /\ regs.radon = 185
  /\ readings.radon = "5.00"

\* C20: the VariantB pressure, the unsigned 16-bit value at bytes 10-11,
\* decodes to raw/50 with exactly one decimal place: 8000 yields "160.0".
C20_PlusPressure ==
  pc = "decodedPlus" =>
    /\ readings.pressure = FixedStr(RoundDiv(RawPressure * 10, 50), 1)
    /\ RawPressure = 0 => readings.pressure = "0.0"
    /\ RawPressure = 8000 => readings.pressure = "160.0"
    /\ RawPressure = 30830 => readings.pressure = "616.6"
    /\ RawPressure = 65535 => readings.pressure = "1310.7"

\* the worked value of the claim: raw pressure 8000
C20_Witness ==
  /\ pc = "decodedPlus"
  /\ RawPressure = 8000
  /\ readings.pressure = "160.0"

\* C21: a cycle that goes to sleep as if the scan had timed out (the
\* controller read found as false) is a cycle in which no matching
\* advertisement was delivered to the callback: the callback is not inside
\* onResult and has set neither address nor found.
C21_FoundFlagSeen ==
  (Sleeping /\ recorded = "none" /\ pAddress = NoAddress)
    => (cbpc = "idle" /\ ~found /\ address = NoAddress)

\* the controller's position, by stage
InDiscovery == pc \in {"setup", "scan", "delay", "check"}
InAcquisition ==
  pc \in {"connect", "getService", "readSensors", "readWaveSensors",
          "readWavePlusSensors", "nullDeref", "readDone"}
InPublishPipeline == pc \in {"wifiWait", "wifiCheck", "mqttConnect", "publish"}

\* C22: while the controller is in discovery no link, service query, broker
\* session or publish exists; it is in acquisition only after the scan has
\* ended, the callback has returned and found was read true; and it is in the
\* publish pipeline only with readSensors having returned true, the radio
\* link closed, the scan ended and the callback idle.
C22_StagesInSequence ==
  /\ InDiscovery =>
       /\ ~connected
       /\ queried = <<>>
       /\ ran = <<>>
       /\ ~mqttConnected
       /\ attempted = <<>>
  /\ InAcquisition =>
       /\ found
       /\ pAddress \in Addrs
       /\ ~scanRunning
       /\ cbpc = "idle"
       /\ ~mqttConnected
       /\ attempted = <<>>
  /\ InPublishPipeline =>
       /\ found
       /\ retval
       /\ ~connected
       /\ ~scanRunning
       /\ cbpc = "idle"

\* the first publish has been made: the reading is in, the link is closed
C22_Witness ==
  /\ pc = "publish"
  /\ Len(published) = 1
  /\ retval
  /\ ~connected
  /\ ~scanRunning

\* the fixed sequence of the nine topics
PublishOrder ==
  <<"airthings/radon24hour", "airthings/radonLifetime", "airthings/temperature",
    "airthings/humidity", "airthings/pressure", "airthings/co2",
    "airthings/voc", "airthings/version", "airthings/ambientlight">>

\* C23: the topics published in a cycle are, in order, the first topics of
\* the fixed sequence, each once, with the last five only under tag WAVEPLUS;
\* a published message stays published for the rest of the cycle; and after a
\* failed publish the cycle is at its sleep step, so nothing more is sent.
C23_PublishedPrefix ==
  /\ [](/\ Len(published) <= Len(PublishOrder)
        /\ \A i \in 1..Len(published) : published[i][1] = PublishOrder[i]
        /\ \A i, j \in 1..Len(published) :
             published[i][1] = published[j][1] => i = j
        /\ Len(published) > 4 => airthingsProduct = WAVEPLUS
        /\ Len(attempted) > Len(published) => Sleeping)
  /\ [][(pc # "asleep" /\ pc # "crashed")
          => /\ Len(published') >= Len(published)
             /\ SubSeq(published', 1, Len(published)) = published]_vars

\* the sixth publish of a VariantB cycle failed: the five messages before it
\* stay published and the cycle sleeps
C23_Witness ==
  /\ pc = "asleep"
  /\ recorded = "false"
  /\ Len(attempted) = 6
  /\ Len(published) = 5
  /\ published[5][1] = "airthings/pressure"

\* C24: whenever found is true, address holds the address of the matching
\* advertisement onResult handled (found is set after address, by the same
\* call); the controller takes the address only in a step in which it reads
\* found as true, so the address it passes on is an assigned one.
C24_FoundImpliesAddress ==
  /\ [](found => address \in Addrs)
  /\ []((InAcquisition \/ InPublishPipeline \/ recorded # "none")
          => pAddress \in Addrs)
  /\ [][/\ (found' /\ ~found)
             => /\ CarriesKnownService(cbDevice)
                /\ address = cbDevice.address
                /\ address' = address
        /\ (pAddress' # pAddress /\ pc # "asleep" /\ pc # "crashed")
             => /\ found
                /\ address \in Addrs
                /\ pAddress' = address]_vars

\* the callback has returned with found set and the address of the first
\* device recorded, before the controller has read either
C24_Witness ==
  /\ pc = "delay"
  /\ cbpc = "idle"
  /\ found
  /\ address = 1
  /\ pAddress = NoAddress

\* C25: the value passed to esp_sleep_enable_timer_wakeup is the chosen
\* duration times 1,000,000, for 30 s (30,000,000 = 457 * 65536 + 50048) and
\* for 3600 s (3,600,000,000 = 54931 * 65536 + 41984), and the 32-bit
\* product did not pass 2^32.  The value is hi * 65536 + lo; the product is
\* compared after division of both sides by 64.
C25_WakeTimerMicros ==
  pc = "asleep" =>
    /\ timeToSleep \in {READ_WAIT_RETRY_SECONDS, READ_WAIT_SECONDS}
    /\ ~wakeTimer.wrapped
    /\ wakeTimer.hi \in 0..65535
    /\ wakeTimer.lo \in 0..65535
    /\ wakeTimer.lo % 64 = 0
    /\ wakeTimer.hi * 1024 + wakeTimer.lo \div 64 = timeToSleep * 15625
    /\ timeToSleep = 30 => (wakeTimer.hi = 457 /\ wakeTimer.lo = 50048)
    /\ timeToSleep = 3600 => (wakeTimer.hi = 54931 /\ wakeTimer.lo = 41984)

\* the chip sleeps the full hour: 3,600,000,000 microseconds
C25_Witness ==
  /\ pc = "asleep"
  /\ timeToSleep = 3600
  /\ wakeTimer.hi = 54931
  /\ wakeTimer.lo = 41984
  /\ ~wakeTimer.wrapped

====
